---- MODULE Spec2Model ----
(***************************************************************************)
(* Model of libcodechecker/source_code_comment_handler.py:                 *)
(* SourceCodeCommentHandler.get_source_line_comments (the backward scan),  *)
(* __process_source_line_comment (the directive parser) and                *)
(* filter_source_line_comments (the checker filter).                       *)
(*                                                                         *)
(* Text is a sequence of symbols.  A symbol is one character ("/", " ",    *)
(* "[", "]", ",") or an atomic run of word characters (a marker keyword,   *)
(* "all", "x", ...).  No symbol is a concatenation of other symbols, so     *)
(* equality of symbol sequences is equality of the Python strings.         *)
(***************************************************************************)
EXTENDS Integers, Sequences, FiniteSets, TLC

\* ------------------------------------------------------------- bounds
\* Longest source file that is enumerated.
MaxLines == 3

\* ------------------------------------------------------------- text
source_code_comment_markers ==
    {"codechecker_suppress", "codechecker_false_positive",
     "codechecker_intentional", "codechecker_confirmed"}

\* str.isspace of one symbol.
IsSpace(c) == c = " "

RECURSIVE lstrip(_)
lstrip(s) == IF s # <<>> /\ IsSpace(Head(s)) THEN lstrip(Tail(s)) ELSE s

RECURSIVE rstrip(_)
rstrip(s) ==
    IF s # <<>> /\ IsSpace(s[Len(s)]) THEN rstrip(SubSeq(s, 1, Len(s) - 1)) ELSE s

\* str.strip()
strip(s) == rstrip(lstrip(s))

\* s[i:] of Python, 1-based: the suffix starting at position i.
From(s, i) == SubSeq(s, i, Len(s))

\* str.startswith
startswith(s, p) == Len(s) >= Len(p) /\ SubSeq(s, 1, Len(p)) = p

\* The longest prefix of s holding no symbol of the set seps.
RECURSIVE TakeWord(_, _)
TakeWord(s, seps) ==
    IF s = <<>> \/ Head(s) \in seps THEN <<>>
    ELSE <<Head(s)>> \o TakeWord(Tail(s), seps)

\* re.findall("[^<seps>]+", s): the maximal runs of non-separator symbols.
RECURSIVE Tokens(_, _)
Tokens(s, seps) ==
    IF s = <<>> THEN <<>>
    ELSE IF Head(s) \in seps THEN Tokens(Tail(s), seps)
    ELSE LET w == TakeWord(s, seps)
         IN  <<w>> \o Tokens(From(s, Len(w) + 1), seps)

\* str.split() without arguments: the whitespace-separated words.
split(s) == Tokens(s, {" "})

\* sep.join(parts)
RECURSIVE join(_, _)
join(sep, parts) ==
    IF parts = <<>> THEN <<>>
    ELSE IF Len(parts) = 1 THEN parts[1]
    ELSE parts[1] \o sep \o join(sep, Tail(parts))

\* list(reversed(l))
reversed(l) == [i \in 1..Len(l) |-> l[Len(l) + 1 - i]]

\* s.replace('//', ''): leftmost, non-overlapping occurrences removed.
RECURSIVE replace_slashes(_)
replace_slashes(s) ==
    IF Len(s) < 2 THEN s
    ELSE IF s[1] = "/" /\ s[2] = "/" THEN replace_slashes(From(s, 3))
    ELSE <<s[1]>> \o replace_slashes(Tail(s))

\* The set of elements of a sequence.
Range(s) == {s[i] : i \in 1..Len(s)}

\* ------------------------------------------------------------- parser
\* __check_if_comment: the stripped line starts with '//'.
check_if_comment(source_line) == startswith(strip(source_line), <<"/", "/">>)

\* any(marker in source_line for marker in source_code_comment_markers)
has_any_marker(source_line) ==
    \E i \in 1..Len(source_line) : source_line[i] \in source_code_comment_markers

\* ' '.join(source_line_comment.split())
formatted(source_line_comment) == join(<<" ">>, split(source_line_comment))

\* Index of the '[' the pattern ^\s*(marker)\s*\[ reaches in f, 0 when the
\* pattern cannot get that far.
OpenBracket(f) ==
    LET a == lstrip(f)
    IN  IF a = <<>> \/ Head(a) \notin source_code_comment_markers THEN 0
        ELSE LET b == lstrip(Tail(a))
             IN  IF b # <<>> /\ Head(b) = "[" THEN Len(f) - Len(b) + 1 ELSE 0

\* Index of the ']' the greedy (.*)\s*\] settles on: the last one after the
\* opening bracket, 0 when there is none.
CloseBracket(f) ==
    LET o == OpenBracket(f)
        js == {j \in (o + 1)..Len(f) : f[j] = "]"}
    IN  IF o = 0 \/ js = {} THEN 0
        ELSE CHOOSE j \in js : \A k \in js : k <= j

\* re.match(ptn, formatted) succeeded.
matches(f) == CloseBracket(f) # 0

\* res.group('status')
group_status(f) == Head(lstrip(f))

\* res.group('checkers'): after \[\s* up to the last ']'.
group_checkers(f) ==
    lstrip(SubSeq(f, OpenBracket(f) + 1, CloseBracket(f) - 1))

\* res.group('comment'): after \]\s* to the end.
group_comment(f) == lstrip(From(f, CloseBracket(f) + 1))

\* The checker name 'all'.
all == <<"all">>

\* checkers_names of __process_source_line_comment.
checkers_names(checkers) ==
    IF checkers = all THEN {all}
    ELSE Range(Tokens(strip(checkers), {",", " "}))

\* message of __process_source_line_comment.
message_of(comment) ==
    IF comment # <<>> THEN comment
    ELSE <<"WARNING! source code comment is missing">>

\* review_status of __process_source_line_comment.
review_status(status) ==
    IF status = "codechecker_intentional" THEN "intentional"
    ELSE IF status = "codechecker_confirmed" THEN "confirmed"
    ELSE "false_positive"

\* __process_source_line_comment: a sequence holding the parsed dict, or the
\* empty sequence for the implicit None.
process_source_line_comment(source_line_comment) ==
    LET f == formatted(source_line_comment)
    IN  IF matches(f)
        THEN <<[checkers |-> checkers_names(group_checkers(f)),
                message  |-> message_of(group_comment(f)),
                status   |-> review_status(group_status(f))]>>
        ELSE <<>>


\* ------------------------------------------------------------- inputs
\* The source lines files are built from.
BlankLine   == <<>>
CodeLine    == <<"x", " ", "/", "/", " ", "codechecker_suppress", " ", "[", "x", "]">>
PlainLine   == <<"/", "/", " ", "comment">>
TightLine   == <<"/", "/", "comment">>
SuppressX   == <<"/", "/", " ", "codechecker_suppress", " ", "[", "x", "]", " ", "some">>
ConfirmAll  == <<" ", "/", "/", " ", "codechecker_confirmed", " ", "[", "all", "]">>
IntentAllX  == <<"/", "/", " ", "codechecker_intentional", " ", "[", "all", ",", " ", "x", "]",
                 " ", "some", " ", " ", "comment">>
Misspelled  == <<"/", "/", " ", "codechecker_suppress", " ", "x", " ", "some">>
EmptyList   == <<"/", "/", " ", "codechecker_false_positive", " ", "[", " ", ",", " ", "]",
                 " ", "some">>

LineTexts ==
    {BlankLine, CodeLine, PlainLine, TightLine, SuppressX, ConfirmAll,
     IntentAllX, Misspelled, EmptyList}

\* Files of at most MaxLines lines; file[n] is line n.
Files == UNION {[1..n -> LineTexts] : n \in 0..MaxLines}

\* The checker names the filter is asked about.
CheckerNames == {<<"x">>, <<"y">>, all}

\* ------------------------------------------------------------- state
VARIABLES
    file,                  \* the source file: its lines, 1-indexed
    bug_line,              \* the reported line
    pc,                    \* "call", "loop", "scanned", "done"
    previous_line_num,     \* the scan cursor
    source_line_comments,  \* the scanner's output list
    curr_suppress_comment, \* the accumulator of stripped comment lines
    requested,             \* line numbers passed to util.get_line, in order
    answers,               \* answers[i]: the text util.get_line returned for requested[i]
    marker_lines,          \* marker_lines[i]: the line whose read appended source_line_comments[i]
    warned,                \* lines a "Misspelled review status" warning was logged for
    checker_name,          \* the filter's checker name
    checker_name_comments  \* the filter's result: references (indices) into source_line_comments

vars == <<file, bug_line, pc, previous_line_num, source_line_comments,
          curr_suppress_comment, requested, answers, marker_lines, warned,
          checker_name, checker_name_comments>>

\* util.get_line(source_file, n): the text of line n.  For a line number outside
\* the file the reader's answer is not fixed by its contract: any text.
get_line(f, n) == IF n \in 1..Len(f) THEN {f[n]} ELSE LineTexts

Init ==
    /\ file \in Files
    /\ bug_line \in 1..(Len(file) + 1)
    /\ pc = "call"
    /\ previous_line_num = 0
    /\ source_line_comments = <<>>
    /\ curr_suppress_comment = <<>>
    /\ requested = <<>>
    /\ answers = <<>>
    /\ marker_lines = <<>>
    /\ warned = {}
    /\ checker_name = <<>>
    /\ checker_name_comments = <<>>

\* ------------------------------------------------------------- scanner
\* suppress_comment = ''.join(rev).replace('//', '')
suppress_comment(curr) == replace_slashes(join(<<>>, reversed(curr)))

\* A scan that stops at code lines only and walks over blank lines.
not_a_comment_unless_blank(source_line) ==
    ~check_if_comment(source_line) /\ strip(source_line) # <<>>

\* "This is not a comment.": the test that ends the loop.
not_a_comment(source_line) == ~check_if_comment(source_line)

\* A loop that forgets to move the cursor.
next_line_num_stuck(n) == n

\* The cursor after one completed iteration.
next_line_num(n) == n - 1

\* Whether the loop goes on after an iteration on a comment line at cursor n.
loop_continues(n) == n > 0

\* An accumulator that is cleared only after a successful parse.
next_accumulator_kept_on_failure(curr, has_marker, parsed) ==
    IF has_marker /\ parsed THEN <<>> ELSE curr

\* The accumulator after an iteration that appended the line: cleared when the
\* line carried a marker, parsed or not.
next_accumulator(curr, has_marker, parsed) == IF has_marker THEN <<>> ELSE curr

\* A list that grows at the front.
prepend_comment(comments, comment) == <<comment>> \o comments

\* source_line_comments.append(comment)
append_comment(comments, comment) == Append(comments, comment)

\* get_source_line_comments, up to the loop.
Enter ==
    /\ pc = "call"
    /\ previous_line_num' = bug_line - 1
    /\ pc' = IF bug_line - 1 < 1 THEN "scanned" ELSE "loop"
    /\ UNCHANGED <<file, bug_line, source_line_comments, curr_suppress_comment,
                   requested, answers, marker_lines, warned, checker_name,
                   checker_name_comments>>

\* One iteration of the while loop: the line is read; a non-comment line ends
\* the loop with nothing changed; a comment line is accumulated, a marker line
\* closes the block (parsed and appended, or warned about), and the cursor
\* moves up unless it is at 0.
LoopIter ==
    /\ pc = "loop"
    /\ \E source_line \in get_line(file, previous_line_num) :
        LET is_comment == ~not_a_comment(source_line)
            curr == Append(curr_suppress_comment, strip(source_line))
            has_marker == is_comment /\ has_any_marker(source_line)
            comment == process_source_line_comment(suppress_comment(curr))
            parsed == has_marker /\ comment # <<>>
            goes_on == is_comment /\ loop_continues(previous_line_num)
        IN  /\ requested' = Append(requested, previous_line_num)
            /\ answers' = Append(answers, source_line)
            /\ source_line_comments' =
                   IF parsed THEN append_comment(source_line_comments, comment[1])
                   ELSE source_line_comments
            /\ marker_lines' =
                   IF parsed THEN append_comment(marker_lines, previous_line_num)
                   ELSE marker_lines
            /\ warned' =
                   IF has_marker /\ ~parsed THEN warned \cup {previous_line_num}
                   ELSE warned
            /\ curr_suppress_comment' =
                   IF is_comment THEN next_accumulator(curr, has_marker, parsed)
                   ELSE curr_suppress_comment
            /\ previous_line_num' =
                   IF goes_on THEN next_line_num(previous_line_num)
                   ELSE previous_line_num
            /\ pc' = IF goes_on THEN "loop" ELSE "scanned"
    /\ UNCHANGED <<file, bug_line, checker_name, checker_name_comments>>

\* ------------------------------------------------------------- filter
\* A filter that keeps the first wildcard it meets instead of the latest.
remember_first_all(all_checker_comment, i, checkers, comment_len) ==
    IF all \in checkers /\ comment_len = 0 /\ all_checker_comment = 0
    THEN i ELSE all_checker_comment

\* all_checker_comment after one iteration: a reference into the list, 0 for None.
remember_all(all_checker_comment, i, checkers, comment_len) ==
    IF all \in checkers /\ comment_len = 0 THEN i ELSE all_checker_comment

\* The condition under which the wildcard comment is appended after the loop.
append_all(comment_len, all_checker_comment) ==
    comment_len = 0 /\ all_checker_comment # 0

\* The for loop of filter_source_line_comments from element i on.
RECURSIVE filter_loop(_, _, _, _)
filter_loop(comments, name, i, st) ==
    IF i > Len(comments) THEN st
    ELSE LET comment_len == Len(st.checker_name_comments)
             checkers == comments[i].checkers
         IN  filter_loop(comments, name, i + 1,
                 [comment_len |-> comment_len,
                  all_checker_comment |->
                      remember_all(st.all_checker_comment, i, checkers, comment_len),
                  checker_name_comments |->
                      IF name \in checkers
                      THEN Append(st.checker_name_comments, i)
                      ELSE st.checker_name_comments])

\* filter_source_line_comments on the scanner's output.
filter_source_line_comments(comments, name) ==
    IF Len(comments) = 0 THEN <<>>
    ELSE LET st == filter_loop(comments, name, 1,
                       [comment_len |-> 0, all_checker_comment |-> 0,
                        checker_name_comments |-> <<>>])
         IN  IF append_all(st.comment_len, st.all_checker_comment)
             THEN Append(st.checker_name_comments, st.all_checker_comment)
             ELSE st.checker_name_comments

Filter ==
    /\ pc = "scanned"
    /\ \E name \in CheckerNames :
        /\ checker_name' = name
        /\ checker_name_comments' =
               filter_source_line_comments(source_line_comments, name)
    /\ pc' = "done"
    /\ UNCHANGED <<file, bug_line, previous_line_num, source_line_comments,
                   curr_suppress_comment, requested, answers, marker_lines,
                   warned>>

Next == Enter \/ LoopIter \/ Filter

Spec == Init /\ [][Next]_vars


\* ------------------------------------------------------------- properties
\* The filter has returned.
Done == pc = "done"

\* The scanner has returned.
Scanned == pc \in {"scanned", "done"}

\* The scanner has just returned: its caller holds the result.
Returned == pc = "scanned"

\* The increasing sequence of the elements of the set of integers S.
RECURSIVE Sorted(_)
Sorted(S) ==
    IF S = {} THEN <<>>
    ELSE LET m == CHOOSE x \in S : \A y \in S : x <= y
         IN  <<m>> \o Sorted(S \ {m})

\* References to the scanner's directives that name the checker explicitly.
ExplicitMatches ==
    {i \in 1..Len(source_line_comments) :
        checker_name \in source_line_comments[i].checkers}

\* References to the scanner's directives whose checkers set contains 'all'.
Wildcards ==
    {i \in 1..Len(source_line_comments) :
        all \in source_line_comments[i].checkers}

\* Every directive of the scanner's output was closed by a line of the file.
FromFile == \A i \in 1..Len(marker_lines) : marker_lines[i] >= 1

\* C1: when at least one directive names the checker, the filter returns exactly
\* those directives in encountered order, and none that is there for 'all' alone
\* (stated for scanner outputs made of the file's own lines).
C1_ExplicitMatchesOnly ==
    (Done /\ FromFile /\ ExplicitMatches # {}) =>
        checker_name_comments = Sorted(ExplicitMatches)

\* C2 as stated: with no explicit match the filter returns the FIRST wildcard of
\* the scanner's output alone, and nothing when there is no wildcard either
\* (stated for scanner outputs made of the file's own lines).
C2_FirstWildcard ==
    (Done /\ FromFile /\ ExplicitMatches = {}) =>
        IF Wildcards = {} THEN checker_name_comments = <<>>
        ELSE checker_name_comments = <<Sorted(Wildcards)[1]>>

\* C2 amended: with no explicit match the filter returns the LAST directive of
\* the scanner's output whose checkers set contains 'all' (the wildcard block
\* farthest from the bug line) alone, and nothing when there is no such directive.
C2_LastWildcard ==
    (Done /\ ExplicitMatches = {}) =>
        IF Wildcards = {} THEN checker_name_comments = <<>>
        ELSE checker_name_comments = <<Sorted(Wildcards)[Cardinality(Wildcards)]>>

\* Two different wildcard directives, no explicit match, the later one returned.
C2_Witness ==
    /\ Done
    /\ ExplicitMatches = {}
    /\ FromFile
    /\ Cardinality(Wildcards) >= 2
    /\ source_line_comments[1] # source_line_comments[2]
    /\ Len(checker_name_comments) = 1
    /\ checker_name_comments[1] > 1

\* C3: every line number the scanner passes to get_line is at least 1.
C3_NeverRequestsBelowOne ==
    \A i \in 1..Len(requested) : requested[i] >= 1

\* C4: every directive the scanner holds has a non-empty checkers set.
C4_CheckersNonEmpty ==
    \A i \in 1..Len(source_line_comments) :
        source_line_comments[i].checkers # {}

\* C10: the filter's result is a subsequence of the scanner's output: its
\* references are strictly increasing, so no occurrence is returned twice
\* (stated for scanner outputs made of the file's own lines).
C10_ResultIsSubsequence ==
    (Done /\ FromFile) =>
        \A i, j \in 1..Len(checker_name_comments) :
            i < j => checker_name_comments[i] < checker_name_comments[j]


\* ------------------------------------------------------------- scanner properties
\* Line m lies in the contiguous comment run directly above the bug line.
InRun(m) ==
    /\ m \in 1..(bug_line - 1)
    /\ \A k \in m..(bug_line - 1) : check_if_comment(file[k])

\* The last line of the block that the marker line m closes: the lines below m,
\* down to the bug line or to the next marker line, belong to it.
BlockEnd(m) ==
    CHOOSE e \in m..(bug_line - 1) :
        /\ \A k \in (m + 1)..e : ~has_any_marker(file[k])
        /\ e < bug_line - 1 => has_any_marker(file[e + 1])

\* The accumulator's content when the scan reads marker line m: the stripped
\* lines of the block, nearest to the bug line first.
BlockLines(m) ==
    LET e == BlockEnd(m)
    IN  [i \in 1..(e - m + 1) |-> strip(file[e + 1 - i])]

\* What the parser makes of the block closed by marker line m.
BlockDirective(m) == process_source_line_comment(suppress_comment(BlockLines(m)))

\* Marker line m closes a block of the run.
ClosesBlock(m) == InRun(m) /\ has_any_marker(file[m])

WellFormed(m) == ClosesBlock(m) /\ BlockDirective(m) # <<>>

Malformed(m) == ClosesBlock(m) /\ BlockDirective(m) = <<>>

\* The references to the directives closed by line m.
DirectivesAt(m) == {i \in 1..Len(marker_lines) : marker_lines[i] = m}

\* C5: the scan stops at a non-comment line: nothing at or above it is read
\* past it or turned into a directive, directives come from marker lines only
\* (a markerless run of comments yields none), and a non-comment line directly
\* above the bug line yields an empty result.
C5_StopsAtNonComment ==
    /\ \A n \in 1..(bug_line - 1) :
          ~check_if_comment(file[n]) =>
              /\ \A i \in 1..Len(marker_lines) : marker_lines[i] > n
              /\ \A i \in 1..Len(requested) : requested[i] >= n
    /\ \A i \in 1..Len(marker_lines) :
          marker_lines[i] >= 1 => has_any_marker(file[marker_lines[i]])
    /\ (bug_line >= 2 /\ ~check_if_comment(file[bug_line - 1])) =>
          source_line_comments = <<>>

\* The scan stopped at a non-comment line with markerless comments accumulated
\* below it and a well-formed directive comment above it.
C5_Witness ==
    /\ Scanned
    /\ curr_suppress_comment # <<>>
    /\ source_line_comments = <<>>
    /\ \E n \in 2..(bug_line - 2) :
          /\ ~check_if_comment(file[n])
          /\ check_if_comment(file[n - 1])
          /\ process_source_line_comment(replace_slashes(strip(file[n - 1]))) # <<>>

\* C6: a malformed block yields no directive but a warning, and every
\* well-formed block above it in the run is still returned, parsed from its own
\* lines alone.
C6_MalformedBlockSkipped ==
    Returned =>
        \A m \in 1..(bug_line - 1) :
            Malformed(m) =>
                /\ DirectivesAt(m) = {}
                /\ m \in warned
                /\ \A k \in 1..(m - 1) :
                      WellFormed(k) =>
                          \E i \in DirectivesAt(k) :
                              source_line_comments[i] = BlockDirective(k)[1]

\* A malformed block with a returned well-formed block above it.
C6_Witness ==
    /\ Scanned
    /\ \E m \in 1..(bug_line - 1) :
          /\ Malformed(m)
          /\ \E k \in 1..(m - 1) : WellFormed(k) /\ DirectivesAt(k) # {}

\* C7: each well-formed block of the run is returned exactly once, as the
\* parse of its lines, every directive closed by a line of the file is one of
\* them, and the output is ordered by decreasing marker line.
C7_StackedBlocksNearestFirst ==
    Returned =>
        /\ \A m \in 1..(bug_line - 1) :
              WellFormed(m) =>
                  /\ Cardinality(DirectivesAt(m)) = 1
                  /\ \A i \in DirectivesAt(m) :
                        source_line_comments[i] = BlockDirective(m)[1]
        /\ \A i \in 1..Len(marker_lines) :
              marker_lines[i] >= 1 => WellFormed(marker_lines[i])
        /\ \A i, j \in 1..Len(marker_lines) :
              i < j => marker_lines[i] > marker_lines[j]
        /\ Len(source_line_comments) = Len(marker_lines)

\* Three stacked well-formed blocks, all returned.
C7_Witness ==
    /\ Scanned
    /\ bug_line = 4
    /\ \A m \in 1..3 : WellFormed(m)
    /\ Len(source_line_comments) >= 3
    /\ source_line_comments[1] # source_line_comments[3]


\* ------------------------------------------------------------- reconstruction
\* A comment line without its leading comment prefix.
Uncommented(line) == From(strip(line), 3)

\* The position of the closing bracket of a marker line.
ClosingBracket(text) ==
    CHOOSE j \in 1..Len(text) :
        text[j] = "]" /\ \A k \in (j + 1)..Len(text) : text[k] # "]"

\* The position of the opening bracket of a marker line.
OpeningBracket(text) ==
    CHOOSE j \in 1..Len(text) :
        text[j] = "[" /\ \A k \in 1..(j - 1) : text[k] # "["

\* The words of the continuation lines m+1..e, top to bottom.
RECURSIVE ContinuationWords(_, _)
ContinuationWords(m, e) ==
    IF e <= m THEN <<>>
    ELSE ContinuationWords(m, e - 1) \o split(Uncommented(file[e]))

\* The message the block closed by marker line m stands for: the words after
\* the marker line's closing bracket, then the words of each continuation
\* line, separated by single spaces.
ExpectedMessage(m) ==
    LET text == Uncommented(file[m])
        words == split(From(text, ClosingBracket(text) + 1))
                     \o ContinuationWords(m, BlockEnd(m))
    IN  message_of(join(<<" ">>, words))

\* The names inside the brackets of marker line m.
ExpectedCheckers(m) ==
    LET text == Uncommented(file[m])
    IN  Range(Tokens(SubSeq(text, OpeningBracket(text) + 1, ClosingBracket(text) - 1),
                     {",", " "}))

\* C8: the directive of a block made of a marker line and continuation lines
\* below it has the marker line's words after the bracket followed by the
\* continuation lines' words as its message, single-spaced with the words of
\* different lines kept apart, and the bracketed names as its checkers.
C8_MultiLineMessage ==
    Returned =>
        \A i \in 1..Len(marker_lines) :
            LET m == marker_lines[i]
            IN  (m >= 1 /\ BlockEnd(m) > m) =>
                    /\ source_line_comments[i].message = ExpectedMessage(m)
                    /\ source_line_comments[i].checkers = ExpectedCheckers(m)

\* ------------------------------------------------------------- termination
\* The requests so far: from bug_line - 1 downward one line at a time, each
\* after a comment was read at a cursor above 0.
RequestsDescend ==
    /\ Len(answers) = Len(requested)
    /\ requested # <<>> => requested[1] = bug_line - 1
    /\ \A i \in 1..Len(requested) : requested[i] < bug_line
    /\ \A i \in 1..(Len(requested) - 1) :
          /\ requested[i + 1] = requested[i] - 1
          /\ check_if_comment(answers[i])
          /\ requested[i] > 0
    /\ \A i, j \in 1..Len(requested) : i # j => requested[i] # requested[j]

\* The scanner can take its next step: it is at the call, or in the loop with
\* an answer of the line reader to go on with.
CanStep ==
    \/ pc = "call"
    \/ pc = "loop" /\ get_line(file, previous_line_num) # {}

\* C9: the scan terminates: every iteration issues one request, the cursor is
\* bug_line - 1 less the requests made and never below 0, so at most bug_line
\* iterations run, and the scan is never stuck before it has returned; the
\* cursor starts at bug_line - 1 and falls by one per iteration; no line is
\* requested twice and none at or below the bug line; no line is requested
\* after a non-comment answer or after the cursor reached 0.
C9_ScanTerminates ==
    /\ RequestsDescend
    /\ Len(requested) <= bug_line
    /\ pc = "loop" =>
          /\ previous_line_num = bug_line - 1 - Len(requested)
          /\ previous_line_num >= 0
    /\ ~Scanned => CanStep
    /\ (Scanned /\ bug_line >= 2) =>
          /\ requested # <<>>
          /\ \/ ~check_if_comment(answers[Len(answers)])
             \/ requested[Len(requested)] = 0

\* The scan ran three iterations and ended on a non-comment line of the file.
C9_Witness ==
    /\ Scanned
    /\ Len(requested) = 3
    /\ requested[3] >= 1
    /\ ~check_if_comment(answers[3])

====
